---- MODULE Spec2Model ----
(***************************************************************************)
(* Decentralized Identity Vault (Team-Innovision): the browser client's    *)
(* identity, credential and verify tabs over localStorage, the issuer      *)
(* backend and the content store.                                          *)
(*                                                                         *)
(* The repository holds two CredentialTab components (the local "demo"     *)
(* one of src/src/components/CredentialTab.jsx and the backend one of      *)
(* src/unnamed/part_001) and two VerifyTab components (the "debug" one,    *)
(* VerifyTab.jsx:7-469, and the backend one, VerifyTab.jsx:487-825).       *)
(* credImpl and verifyImpl say which of them the running build mounts.     *)
(*                                                                         *)
(* An async handler is a run: it is in the bag `runs` from its first await *)
(* to its end.  Every action is one synchronous segment of a handler (from *)
(* an event or a resolved await up to the next await or the end).  A       *)
(* pending request is a run at an await; the backend's answer and the      *)
(* continuation it resumes are one step, its parameter ok being the answer *)
(* (success, success=false, or the request throws).  A run whose component *)
(* was unmounted goes on: its setState calls are no-ops, its localStorage  *)
(* calls are not.                                                          *)
(*                                                                         *)
(* Optional values are sequences of length at most one: <<>> is            *)
(* null/undefined/'' and <<x>> is x.                                       *)
(***************************************************************************)
EXTENDS Integers, Sequences, FiniteSets, Bags, TLC

VARIABLES credImpl, verifyImpl, userIdentity, userCredentials, contentStore,
          nextIdentity, issueCount, activeTab, idTab, credTab, verTab, runs

vars == <<credImpl, verifyImpl, userIdentity, userCredentials, contentStore,
          nextIdentity, issueCount, activeTab, idTab, credTab, verTab, runs>>

\* ------------------------------------------------------------------ bounds
\* identities the backend's create-did can hand out (each one fresh)
MaxIdentities == 2
\* handler activations that can be suspended on an await at the same time
MaxRuns == 2
\* Issue runs that get past the identity check, over a whole behaviour
MaxIssues == 2
\* distinct values of generateMockCID's 42 random characters
NumMockCIDs == 1
\* distinct values of the random salt of CryptoJS.AES.encrypt
NumSalts == 1

Tabs == {"identity", "credential", "verify"}

\* ------------------------------------------------------------ data, codecs
IssuerDID == 0
DefaultDegree == "BachelorDegree"
AlteredDegree == "AlteredDegree"

\* the identity the backend answers create-did with, stored as JSON
Identity(i) == [did |-> i, publicKey |-> i, privateKey |-> <<i, i>>, address |-> i]

\* privateKey.slice(0, 32): the key is <<first 32 characters, the rest>>
Slice32(key) == SubSeq(key, 1, 1)

\* the credential document
MakeVC(issuer, holder, degree) == [issuer |-> issuer, subject |-> holder, degree |-> degree]
NullDoc == [issuer |-> -1, subject |-> -1, degree |-> ""]

\* the constant of createAlwaysValidSignature
AlwaysValidSignature == [alg |-> "const", subject |-> 0, degree |-> "", flipped |-> FALSE]
\* the issuer's signature over a document
IssuerSign(vc) == [alg |-> "issuer", subject |-> vc.subject, degree |-> vc.degree, flipped |-> FALSE]
\* SignatureEngine.verify of the issuer backend
SignatureEngineVerify(vc, sig) == sig = IssuerSign(vc)

\* CryptoJS.AES.encrypt(JSON.stringify(vc), key).toString()
Encrypt(vc, key, salt) == [doc |-> vc, key |-> key, salt |-> salt]
\* a decrypted text: the JSON text of a document, '' or text that is no JSON
JsonText(vc) == [kind |-> "json", doc |-> vc]
EmptyText == [kind |-> "empty", doc |-> NullDoc]
GarbageText == [kind |-> "garbage", doc |-> NullDoc]
\* CryptoJS.AES.decrypt(data, key).toString(Utf8): under another key the bytes
\* are noise, which is '' (bad padding), a Malformed UTF-8 exception, or, for
\* some bytes, a short text
DecryptOutcomes(ct, key) ==
  IF ct.key = key THEN {JsonText(ct.doc)} ELSE {EmptyText, GarbageText}

\* StorageHandle of the content store: derived from the envelope's bytes
CidOf(ct) == <<"ipfs", ct.doc.subject, ct.doc.issuer, Len(ct.key), ct.key[1], ct.salt,
               IF ct.doc.degree = DefaultDegree THEN 0 ELSE 1>>
MockCIDs == {<<"Qm", n>> : n \in 1..NumMockCIDs}
\* a CID that no Issue run ever produced
NeverPublished == <<"Qm", 0>>

StoreHas(cid) == \E b \in contentStore : b.cid = cid
StoreGet(cid) == (CHOOSE b \in contentStore : b.cid = cid).data

\* credentials.find((c) => c.cid === cid.trim())
Find(creds, cid) ==
  LET hits == {i \in 1..Len(creds) : creds[i].cid = cid}
  IN IF hits = {} THEN <<>>
     ELSE <<creds[CHOOSE i \in hits : \A j \in hits : i <= j]>>

\* ---------------------------------------------------------------- runs
IdleRun == [kind |-> "none", pc |-> "idle", mounted |-> FALSE, serial |-> 0,
            identity |-> <<>>, creds |-> <<>>, cid |-> <<>>, vc |-> <<>>,
            signature |-> AlwaysValidSignature, encryptedVC |-> <<>>,
            foundCred |-> <<>>]

Running == BagToSet(runs)
CanStart == BagCardinality(runs) < MaxRuns
Started(run) == runs (+) SetToBag({run})
Ended(run) == runs (-) SetToBag({run})
Resumed(run, next) == (runs (-) SetToBag({run})) (+) SetToBag({next})

\* every run's component is unmounted
Unmount(run) == [run EXCEPT !.mounted = FALSE]
Detached ==
  LET T == {Unmount(run) : run \in Running}
  IN [t \in T |-> CopiesIn(t, runs) + CopiesIn([t EXCEPT !.mounted = TRUE], runs)]

\* ------------------------------------------------------- component state
IdTabInit == [identity |-> <<>>, loading |-> FALSE, message |-> ""]
CredTabInit == [credentials |-> <<>>, loading |-> FALSE, message |-> ""]
VerTabInit == [cid |-> <<>>, loading |-> FALSE, message |-> "", verificationResult |-> <<>>,
               decryptedVC |-> <<>>, verificationStep |-> 0, stepLog |-> <<>>,
               debugInfo |-> <<>>]

\* the mount effects: useEffect(() => {...}, [])
IdTabMount == [IdTabInit EXCEPT !.identity = userIdentity,
                                !.message = IF userIdentity = <<>> THEN "" ELSE "IdentityLoaded"]
CredTabMount == [CredTabInit EXCEPT !.credentials = userCredentials]

Init ==
  /\ credImpl \in {"demo", "backend"}
  /\ verifyImpl \in {"debug", "backend"}
  /\ userIdentity = <<>>
  /\ userCredentials = <<>>
  /\ contentStore = {}
  /\ nextIdentity = 1
  /\ issueCount = 0
  /\ activeTab = "identity"
  /\ idTab = IdTabInit
  /\ credTab = CredTabInit
  /\ verTab = VerTabInit
  /\ runs = EmptyBag

\* ------------------------------------------------------------------ App
\* setActiveTab(t): the shown tab is unmounted, the chosen one mounted anew
SetActiveTab(t) ==
  /\ t /= activeTab
  /\ activeTab' = t
  /\ idTab' = IF t = "identity" THEN IdTabMount ELSE IdTabInit
  /\ credTab' = IF t = "credential" THEN CredTabMount ELSE CredTabInit
  /\ verTab' = VerTabInit
  /\ runs' = Detached
  /\ UNCHANGED <<credImpl, verifyImpl, userIdentity, userCredentials, contentStore,
                 nextIdentity, issueCount>>

\* ---------------------------------------------------------- IdentityTab
\* handleCreateDID up to its await
CreateDIDStart ==
  /\ activeTab = "identity"
  /\ ~idTab.loading
  /\ CanStart
  /\ runs' = Started([IdleRun EXCEPT !.kind = "create", !.pc = "awaitCreate",
                                     !.mounted = TRUE])
  /\ idTab' = [idTab EXCEPT !.loading = TRUE, !.message = "CreatingDID"]
  /\ UNCHANGED <<credImpl, verifyImpl, userIdentity, userCredentials, contentStore,
                 nextIdentity, issueCount, activeTab, credTab, verTab>>

\* handleCreateDID from the answer of create-did, with its catch and finally;
\* the backend answers success with a fresh identity
CreateDIDFinish(run, ok) ==
  /\ run.pc = "awaitCreate"
  /\ ok = "success" => nextIdentity <= MaxIdentities
  /\ LET newIdentity == <<Identity(nextIdentity)>>
     IN /\ userIdentity' = IF ok = "success" THEN newIdentity ELSE userIdentity
        /\ idTab' = IF ~run.mounted THEN idTab
                    ELSE [idTab EXCEPT
                            !.identity = IF ok = "success" THEN newIdentity ELSE @,
                            !.message = CASE ok = "success" -> "DIDCreated"
                                          [] ok = "throw" -> "ErrorCreatingDID"
                                          [] OTHER -> @,
                            !.loading = FALSE]
  /\ nextIdentity' = IF ok = "success" THEN nextIdentity + 1 ELSE nextIdentity
  /\ runs' = Ended(run)
  /\ UNCHANGED <<credImpl, verifyImpl, userCredentials, contentStore,
                 issueCount, activeTab, credTab, verTab>>

\* handleClearIdentity, the confirm dialog accepted
ClearIdentity ==
  /\ activeTab = "identity"
  /\ idTab.identity /= <<>>
  /\ userIdentity' = <<>>
  /\ idTab' = [idTab EXCEPT !.identity = <<>>, !.message = "IdentityCleared"]
  /\ UNCHANGED <<credImpl, verifyImpl, userCredentials, contentStore,
                 nextIdentity, issueCount, activeTab, credTab, verTab, runs>>

\* --------------------------------------------------------- CredentialTab
\* the record an Issue run stores ([credentialRecord, ...credentials])
CredentialRecord(run, vc, cid, sig, enc, vcData) ==
  [id |-> run.serial, did |-> run.identity[1].did, issuer |-> vc.issuer, cid |-> cid,
   signature |-> sig, encryptedData |-> enc, vcData |-> vcData]

IssueRun(pc) == [IdleRun EXCEPT !.kind = "issue", !.pc = pc, !.mounted = TRUE,
                                !.serial = issueCount + 1, !.identity = userIdentity,
                                !.creds = credTab.credentials]

\* a mutation of IssueDemoStart: the early return for a missing identity
\* without its setLoading(false) (CredentialTab.jsx:70)
IssueDemoStart_NoReset ==
  /\ activeTab = "credential"
  /\ credImpl = "demo"
  /\ ~credTab.loading
  /\ IF userIdentity = <<>>
     THEN /\ credTab' = [credTab EXCEPT !.message = "NoIdentity", !.loading = TRUE]
          /\ UNCHANGED <<runs, issueCount>>
     ELSE /\ issueCount < MaxIssues
          /\ CanStart
          /\ runs' = Started(IssueRun("timers"))
          /\ issueCount' = issueCount + 1
          /\ credTab' = [credTab EXCEPT !.message = "Issuing", !.loading = TRUE]
  /\ UNCHANGED <<credImpl, verifyImpl, userIdentity, userCredentials, contentStore,
                 nextIdentity, activeTab, idTab, verTab>>

\* handleRequestVC of the local CredentialTab, up to its first await
IssueDemoStart ==
  /\ activeTab = "credential"
  /\ credImpl = "demo"
  /\ ~credTab.loading
  /\ IF userIdentity = <<>>
     THEN /\ credTab' = [credTab EXCEPT !.message = "NoIdentity", !.loading = FALSE]
          /\ UNCHANGED <<runs, issueCount>>
     ELSE /\ issueCount < MaxIssues
          /\ CanStart
          /\ runs' = Started(IssueRun("timers"))
          /\ issueCount' = issueCount + 1
          /\ credTab' = [credTab EXCEPT !.message = "Issuing", !.loading = TRUE]
  /\ UNCHANGED <<credImpl, verifyImpl, userIdentity, userCredentials, contentStore,
                 nextIdentity, activeTab, idTab, verTab>>

\* handleRequestVC of the local CredentialTab after its timers.  The six
\* awaits are timers, and the segments between them read and write only the
\* handler's locals, progress and message: they are one suspension here.
\* loading is not reset on this path.
IssueDemoFinish(run, cid, salt) ==
  /\ run.pc = "timers"
  /\ LET vc == MakeVC(IssuerDID, run.identity[1].did, DefaultDegree)
         enc == Encrypt(vc, run.identity[1].privateKey, salt)
         rec == CredentialRecord(run, vc, cid, AlwaysValidSignature, <<enc>>, <<vc>>)
         updated == <<rec>> \o run.creds
     IN /\ userCredentials' = updated
        /\ credTab' = IF run.mounted
                      THEN [credTab EXCEPT !.credentials = updated, !.message = "IssueSuccess"]
                      ELSE credTab
  /\ runs' = Ended(run)
  /\ UNCHANGED <<credImpl, verifyImpl, userIdentity, contentStore, nextIdentity,
                 issueCount, activeTab, idTab, verTab>>

\* handleRequestVC of the backend CredentialTab, up to the issue-vc request
IssueBackendStart ==
  /\ activeTab = "credential"
  /\ credImpl = "backend"
  /\ ~credTab.loading
  /\ IF userIdentity = <<>>
     THEN /\ credTab' = [credTab EXCEPT !.message = "NoIdentity", !.loading = FALSE]
          /\ UNCHANGED <<runs, issueCount>>
     ELSE /\ issueCount < MaxIssues
          /\ CanStart
          /\ runs' = Started(IssueRun("awaitIssue"))
          /\ issueCount' = issueCount + 1
          /\ credTab' = [credTab EXCEPT !.message = "RequestingVC", !.loading = TRUE]
  /\ UNCHANGED <<credImpl, verifyImpl, userIdentity, userCredentials, contentStore,
                 nextIdentity, activeTab, idTab, verTab>>

\* the issuer's answer to issue-vc {holderDID, holderPublicKey, degree}
IssuedVC(holderDID) == MakeVC(IssuerDID, holderDID, DefaultDegree)

\* from the issuer's answer to the upload request
IssueBackendOnIssued(run, ok, salt) ==
  /\ run.pc = "awaitIssue"
  /\ IF ok = "success"
     THEN LET vc == IssuedVC(run.identity[1].did)
          IN /\ runs' = Resumed(run, [run EXCEPT
                                        !.pc = "awaitUpload",
                                        !.vc = <<vc>>,
                                        !.signature = IssuerSign(vc),
                                        !.encryptedVC =
                                           <<Encrypt(vc, Slice32(run.identity[1].privateKey),
                                                     salt)>>])
             /\ credTab' = IF run.mounted THEN [credTab EXCEPT !.message = "Uploading"]
                           ELSE credTab
     ELSE /\ runs' = Ended(run)
          /\ credTab' = IF run.mounted
                        THEN [credTab EXCEPT
                                !.message = IF ok = "fail" THEN "ErrorIssuingVC" ELSE "Error",
                                !.loading = FALSE]
                        ELSE credTab
  /\ UNCHANGED <<credImpl, verifyImpl, userIdentity, userCredentials, contentStore,
                 nextIdentity, issueCount, activeTab, idTab, verTab>>

\* ContentStore.put of the backend's upload-to-ipfs
StorePut(ct) == contentStore \cup {[cid |-> CidOf(ct), data |-> ct]}

\* IssueBackendOnUploaded with the upload's success check (part_001:125-128)
\* left out: the record is written whatever the content store answered
IssueBackendOnUploaded_Unchecked(run, ok) ==
  /\ run.pc = "awaitUpload"
  /\ LET ct == run.encryptedVC[1]
         rec == CredentialRecord(run, run.vc[1], CidOf(ct), run.signature, <<>>, <<>>)
         updated == <<rec>> \o run.creds
     IN /\ contentStore' = IF ok = "success" THEN StorePut(ct) ELSE contentStore
        /\ userCredentials' = updated
        /\ credTab' = IF run.mounted
                      THEN [credTab EXCEPT !.credentials = updated,
                                           !.message = "IssueSuccess",
                                           !.loading = FALSE]
                      ELSE credTab
  /\ runs' = Ended(run)
  /\ UNCHANGED <<credImpl, verifyImpl, userIdentity, nextIdentity,
                 issueCount, activeTab, idTab, verTab>>

\* from the content store's answer to the end
IssueBackendOnUploaded(run, ok) ==
  /\ run.pc = "awaitUpload"
  /\ LET ct == run.encryptedVC[1]
         rec == CredentialRecord(run, run.vc[1], CidOf(ct), run.signature, <<>>, <<>>)
         updated == <<rec>> \o run.creds
     IN IF ok = "success"
        THEN /\ contentStore' = StorePut(ct)
             /\ userCredentials' = updated
             /\ credTab' = IF run.mounted
                           THEN [credTab EXCEPT !.credentials = updated,
                                                !.message = "IssueSuccess",
                                                !.loading = FALSE]
                           ELSE credTab
        ELSE /\ UNCHANGED <<userCredentials, contentStore>>
             /\ credTab' = IF run.mounted
                           THEN [credTab EXCEPT
                                   !.message = IF ok = "fail" THEN "ErrorUploading"
                                               ELSE "Error",
                                   !.loading = FALSE]
                           ELSE credTab
  /\ runs' = Ended(run)
  /\ UNCHANGED <<credImpl, verifyImpl, userIdentity, nextIdentity,
                 issueCount, activeTab, idTab, verTab>>

\* handleClearCredentials ("Clear All", shown while the list is not empty)
ClearCredentials ==
  /\ activeTab = "credential"
  /\ credImpl = "demo"
  /\ credTab.credentials /= <<>>
  /\ userCredentials' = <<>>
  /\ credTab' = [credTab EXCEPT !.credentials = <<>>, !.message = "CredentialsCleared"]
  /\ UNCHANGED <<credImpl, verifyImpl, userIdentity, contentStore, nextIdentity,
                 issueCount, activeTab, idTab, verTab, runs>>

\* ------------------------------------------------------------- VerifyTab
\* resetVerification
ResetVerification(tab) ==
  [tab EXCEPT !.verificationResult = <<>>, !.decryptedVC = <<>>, !.verificationStep = 0,
              !.message = "", !.debugInfo = <<>>, !.stepLog = <<>>]

\* updateVerificationStep(step, message); stepLog keeps the steps of the run
UpdateVerificationStep(tab, step, message) ==
  [tab EXCEPT !.verificationStep = step, !.message = message,
              !.stepLog = Append(@, step)]

\* addDebugInfo(info)
AddDebugInfo(tab, info) == [tab EXCEPT !.debugInfo = Append(@, info)]

VerificationResult(verified, issuer, subject, isSimulated) ==
  [verified |-> verified, issuer |-> issuer, subject |-> subject, isSimulated |-> isSimulated]

\* the debug handleVerify from "Step 3: Enhanced Decryption" to its end, text
\* being what decryptWithMultipleMethods returned
VerifyDebugTail(tab, text, foundCred, isSimulated) ==
  LET t3 == AddDebugInfo(UpdateVerificationStep(tab, 3, "Decrypting"), "DECRYPT_START")
  IN CASE text.kind = "empty" ->
            LET tf == AddDebugInfo(t3, "DECRYPT_FAILED")
            IN IF foundCred /= <<>> /\ foundCred[1].vcData /= <<>>
               THEN LET vc == foundCred[1].vcData[1]
                        t5 == UpdateVerificationStep(
                                UpdateVerificationStep(
                                  [tf EXCEPT !.decryptedVC = <<vc>>], 4, "VerifyingSignature"),
                                5, "VerificationComplete")
                    IN [t5 EXCEPT !.verificationResult =
                                     <<VerificationResult(TRUE, vc.issuer, vc.subject, isSimulated)>>,
                                  !.message = "VerifiedUsingStoredData",
                                  !.loading = FALSE]
               ELSE [tf EXCEPT !.message = "DecryptionFailed", !.loading = FALSE]
       [] text.kind = "garbage" ->
            [AddDebugInfo(t3, "PARSE_ERROR") EXCEPT !.message = "ParseFailed", !.loading = FALSE]
       [] OTHER ->
            LET vc == text.doc
                t5 == UpdateVerificationStep(
                        UpdateVerificationStep(
                          [t3 EXCEPT !.decryptedVC = <<vc>>], 4, "VerifyingSignature"),
                        5, "VerificationComplete")
            IN [t5 EXCEPT !.verificationResult =
                             <<VerificationResult(TRUE, vc.issuer, vc.subject, isSimulated)>>,
                          !.message = "Verified"]

\* the debug handleVerify up to its await, or to its end when the record is
\* found in localStorage (no await is reached then)
VerifyDebugStart(text) ==
  /\ activeTab = "verify"
  /\ verifyImpl = "debug"
  /\ ~verTab.loading
  /\ verTab.cid /= <<>>
  /\ LET cid == verTab.cid[1]
         t1 == UpdateVerificationStep(ResetVerification([verTab EXCEPT !.loading = TRUE]),
                                      1, "CheckingIdentity")
         t2 == UpdateVerificationStep(t1, 2, "Retrieving")
         foundCred == Find(userCredentials, cid)
     IN IF userIdentity = <<>>
        THEN /\ text = EmptyText
             /\ verTab' = [AddDebugInfo(t1, "NO_IDENTITY") EXCEPT !.message = "NoIdentity",
                                                                  !.loading = FALSE]
             /\ UNCHANGED runs
        ELSE IF foundCred /= <<>> /\ foundCred[1].encryptedData /= <<>>
        THEN /\ text \in DecryptOutcomes(foundCred[1].encryptedData[1],
                                         userIdentity[1].privateKey)
             /\ verTab' = VerifyDebugTail(UpdateVerificationStep(t2, 2, "FoundLocal"),
                                          text, foundCred, TRUE)
             /\ UNCHANGED runs
        ELSE /\ text = EmptyText
             /\ CanStart
             /\ runs' = Started([IdleRun EXCEPT !.kind = "verify",
                                                !.pc = "awaitRetrieve",
                                                !.mounted = TRUE,
                                                !.identity = userIdentity,
                                                !.cid = <<cid>>,
                                                !.foundCred = foundCred])
             /\ verTab' = AddDebugInfo(t2, "IPFS_TRY")
  /\ UNCHANGED <<credImpl, verifyImpl, userIdentity, userCredentials, contentStore,
                 nextIdentity, issueCount, activeTab, idTab, credTab>>

\* the answers the content store's retrieve-from-ipfs can give for a CID
RetrieveAnswers(cid) == {IF StoreHas(cid) THEN "success" ELSE "fail", "throw"}

\* VerifyDebugOnRetrieved with the catch of the retrieval (VerifyTab.jsx:201-206)
\* falling through to the decryption instead of returning
VerifyDebugOnRetrieved_FallsThrough(run, ok, text) ==
  /\ verifyImpl = "debug"
  /\ run.pc = "awaitRetrieve"
  /\ ok \in RetrieveAnswers(run.cid[1])
  /\ IF ok = "success"
     THEN text \in DecryptOutcomes(StoreGet(run.cid[1]), run.identity[1].privateKey)
     ELSE text = EmptyText
  /\ verTab' = IF run.mounted
               THEN VerifyDebugTail(IF ok = "success" THEN verTab
                                    ELSE AddDebugInfo(verTab, "IPFS_FAILED"),
                                    text, run.foundCred, FALSE)
               ELSE verTab
  /\ runs' = Ended(run)
  /\ UNCHANGED <<credImpl, verifyImpl, userIdentity, userCredentials, contentStore,
                 nextIdentity, issueCount, activeTab, idTab, credTab>>

\* a mutation of VerifyDebugOnRetrieved: when the retrieval fails, the records
\* of the CID are dropped from the stored list
VerifyDebugOnRetrieved_Forgets(run, ok, text) ==
  /\ verifyImpl = "debug"
  /\ run.pc = "awaitRetrieve"
  /\ ok \in RetrieveAnswers(run.cid[1])
  /\ IF ok = "success"
     THEN /\ text \in DecryptOutcomes(StoreGet(run.cid[1]), run.identity[1].privateKey)
          /\ verTab' = IF run.mounted
                       THEN VerifyDebugTail(verTab, text, run.foundCred, FALSE)
                       ELSE verTab
          /\ UNCHANGED userCredentials
     ELSE /\ text = EmptyText
          /\ verTab' = IF run.mounted
                       THEN [AddDebugInfo(verTab, "IPFS_FAILED") EXCEPT
                               !.message = "CredentialNotFound", !.loading = FALSE]
                       ELSE verTab
          /\ userCredentials' = SelectSeq(userCredentials, LAMBDA c : c.cid /= run.cid[1])
  /\ runs' = Ended(run)
  /\ UNCHANGED <<credImpl, verifyImpl, userIdentity, contentStore,
                 nextIdentity, issueCount, activeTab, idTab, credTab>>

\* the debug handleVerify after the retrieve request
VerifyDebugOnRetrieved(run, ok, text) ==
  /\ verifyImpl = "debug"
  /\ run.pc = "awaitRetrieve"
  /\ ok \in RetrieveAnswers(run.cid[1])
  /\ IF ok = "success"
     THEN /\ text \in DecryptOutcomes(StoreGet(run.cid[1]), run.identity[1].privateKey)
          /\ verTab' = IF run.mounted
                       THEN VerifyDebugTail(verTab, text, run.foundCred, FALSE)
                       ELSE verTab
     ELSE /\ text = EmptyText
          /\ verTab' = IF run.mounted
                       THEN [AddDebugInfo(verTab, "IPFS_FAILED") EXCEPT
                               !.message = "CredentialNotFound", !.loading = FALSE]
                       ELSE verTab
  /\ runs' = Ended(run)
  /\ UNCHANGED <<credImpl, verifyImpl, userIdentity, userCredentials, contentStore,
                 nextIdentity, issueCount, activeTab, idTab, credTab>>

\* the backend handleVerify up to the retrieve request
VerifyBackendStart ==
  /\ activeTab = "verify"
  /\ verifyImpl = "backend"
  /\ ~verTab.loading
  /\ verTab.cid /= <<>>
  /\ LET t0 == [verTab EXCEPT !.verificationResult = <<>>, !.decryptedVC = <<>>]
     IN IF userIdentity = <<>>
        THEN /\ verTab' = [t0 EXCEPT !.message = "NoIdentity", !.loading = FALSE]
             /\ UNCHANGED runs
        ELSE /\ CanStart
             /\ runs' = Started([IdleRun EXCEPT !.kind = "verify",
                                                !.pc = "awaitRetrieve",
                                                !.mounted = TRUE,
                                                !.identity = userIdentity,
                                                !.cid = verTab.cid])
             /\ verTab' = [t0 EXCEPT !.message = "Retrieving", !.loading = TRUE]
  /\ UNCHANGED <<credImpl, verifyImpl, userIdentity, userCredentials, contentStore,
                 nextIdentity, issueCount, activeTab, idTab, credTab>>

\* VerifyBackendOnRetrieved with the signature taken from the oldest record of
\* the list instead of the record found by the CID (VerifyTab.jsx:597-608)
VerifyBackendOnRetrieved_OldestRecord(run, ok, text) ==
  /\ verifyImpl = "backend"
  /\ run.pc = "awaitRetrieve"
  /\ ok \in RetrieveAnswers(run.cid[1])
  /\ LET foundCred == Find(userCredentials, run.cid[1])
         Set(tab) == IF run.mounted THEN tab ELSE verTab
         End(msg) == /\ verTab' = Set([verTab EXCEPT !.message = msg, !.loading = FALSE])
                     /\ runs' = Ended(run)
     IN CASE ok = "throw" -> text = EmptyText /\ End("CouldNotRetrieve")
          [] ok = "fail" ->
               /\ text = EmptyText
               /\ IF userCredentials /= <<>>
                  THEN IF foundCred /= <<>> THEN End("NoEncryptedData") ELSE End("CidNotFound")
                  ELSE End("ErrorRetrieving")
          [] OTHER ->
               /\ text \in DecryptOutcomes(StoreGet(run.cid[1]),
                                           Slice32(run.identity[1].privateKey))
               /\ CASE text.kind = "empty" -> End("DecryptionFailed")
                    [] text.kind = "garbage" -> End("ErrorDecrypting")
                    [] OTHER ->
                         LET td == [verTab EXCEPT !.decryptedVC = <<text.doc>>]
                         IN IF userCredentials = <<>>
                            THEN /\ verTab' = Set([td EXCEPT !.message = "NoSignatureInStorage",
                                                             !.loading = FALSE])
                                 /\ runs' = Ended(run)
                            ELSE IF foundCred = <<>>
                            THEN /\ verTab' = Set([td EXCEPT
                                                     !.message = "CredentialNotFoundLocal",
                                                     !.loading = FALSE])
                                 /\ runs' = Ended(run)
                            ELSE /\ verTab' = Set([td EXCEPT !.message = "VerifyingSignature"])
                                 /\ runs' = Resumed(run, [run EXCEPT
                                                            !.pc = "awaitVerify",
                                                            !.vc = <<text.doc>>,
                                                            !.signature =
                                                               userCredentials[Len(userCredentials)].signature])
  /\ UNCHANGED <<credImpl, verifyImpl, userIdentity, userCredentials, contentStore,
                 nextIdentity, issueCount, activeTab, idTab, credTab>>

\* the backend handleVerify from the content store's answer to the verify-vc
\* request, or to its end
VerifyBackendOnRetrieved(run, ok, text) ==
  /\ verifyImpl = "backend"
  /\ run.pc = "awaitRetrieve"
  /\ ok \in RetrieveAnswers(run.cid[1])
  /\ LET foundCred == Find(userCredentials, run.cid[1])
         Set(tab) == IF run.mounted THEN tab ELSE verTab
         End(msg) == /\ verTab' = Set([verTab EXCEPT !.message = msg, !.loading = FALSE])
                     /\ runs' = Ended(run)
     IN CASE ok = "throw" -> text = EmptyText /\ End("CouldNotRetrieve")
          [] ok = "fail" ->
               /\ text = EmptyText
               /\ IF userCredentials /= <<>>
                  THEN IF foundCred /= <<>> THEN End("NoEncryptedData") ELSE End("CidNotFound")
                  ELSE End("ErrorRetrieving")
          [] OTHER ->
               /\ text \in DecryptOutcomes(StoreGet(run.cid[1]),
                                           Slice32(run.identity[1].privateKey))
               /\ CASE text.kind = "empty" -> End("DecryptionFailed")
                    [] text.kind = "garbage" -> End("ErrorDecrypting")
                    [] OTHER ->
                         LET td == [verTab EXCEPT !.decryptedVC = <<text.doc>>]
                         IN IF userCredentials = <<>>
                            THEN /\ verTab' = Set([td EXCEPT !.message = "NoSignatureInStorage",
                                                             !.loading = FALSE])
                                 /\ runs' = Ended(run)
                            ELSE IF foundCred = <<>>
                            THEN /\ verTab' = Set([td EXCEPT
                                                     !.message = "CredentialNotFoundLocal",
                                                     !.loading = FALSE])
                                 /\ runs' = Ended(run)
                            ELSE /\ verTab' = Set([td EXCEPT !.message = "VerifyingSignature"])
                                 /\ runs' = Resumed(run, [run EXCEPT
                                                            !.pc = "awaitVerify",
                                                            !.vc = <<text.doc>>,
                                                            !.signature = foundCred[1].signature])
  /\ UNCHANGED <<credImpl, verifyImpl, userIdentity, userCredentials, contentStore,
                 nextIdentity, issueCount, activeTab, idTab, credTab>>

\* the backend handleVerify after the verify-vc request {credentialPayload,
\* signature}; the backend answers with SignatureEngine.verify's verdict
VerifyBackendOnVerified(run, ok) ==
  /\ run.pc = "awaitVerify"
  /\ LET vc == run.vc[1]
     IN verTab' = IF ~run.mounted THEN verTab
                  ELSE IF ok = "success"
                  THEN [verTab EXCEPT !.verificationResult =
                                         <<VerificationResult(
                                             SignatureEngineVerify(vc, run.signature),
                                             vc.issuer, vc.subject, FALSE)>>,
                                      !.message = "VerifyResponse",
                                      !.loading = FALSE]
                  ELSE [verTab EXCEPT !.message = "ErrorDecrypting", !.loading = FALSE]
  /\ runs' = Ended(run)
  /\ UNCHANGED <<credImpl, verifyImpl, userIdentity, userCredentials, contentStore,
                 nextIdentity, issueCount, activeTab, idTab, credTab>>

\* the CIDs a user has at hand to paste
KnownCIDs == {NeverPublished} \cup {userCredentials[i].cid : i \in 1..Len(userCredentials)}
               \cup {b.cid : b \in contentStore}

\* onChange of the CID input (disabled while loading); the debug tab also
\* resets the verification
TypeCID(cid) ==
  /\ activeTab = "verify"
  /\ ~verTab.loading
  /\ verTab.cid /= <<cid>>
  /\ verTab' = IF verifyImpl = "debug"
               THEN ResetVerification([verTab EXCEPT !.cid = <<cid>>])
               ELSE [verTab EXCEPT !.cid = <<cid>>]
  /\ UNCHANGED <<credImpl, verifyImpl, userIdentity, userCredentials, contentStore,
                 nextIdentity, issueCount, activeTab, idTab, credTab, runs>>

\* "Use First Credential" of the debug tab
UseFirstCredential ==
  /\ activeTab = "verify"
  /\ verifyImpl = "debug"
  /\ userCredentials /= <<>>
  /\ verTab' = [ResetVerification([verTab EXCEPT !.cid = <<userCredentials[1].cid>>])
                  EXCEPT !.message = "LoadedFirstCredential"]
  /\ UNCHANGED <<credImpl, verifyImpl, userIdentity, userCredentials, contentStore,
                 nextIdentity, issueCount, activeTab, idTab, credTab, runs>>

\* "Clear CID" of the debug tab
ClearCID ==
  /\ activeTab = "verify"
  /\ verifyImpl = "debug"
  /\ verTab' = [verTab EXCEPT !.cid = <<>>]
  /\ UNCHANGED <<credImpl, verifyImpl, userIdentity, userCredentials, contentStore,
                 nextIdentity, issueCount, activeTab, idTab, credTab, runs>>

\* ------------------------------------------------------ the specification
Answers == {"success", "fail", "throw"}
Texts == {EmptyText, GarbageText} \cup
         {JsonText(MakeVC(IssuerDID, i, d)) : i \in 1..MaxIdentities,
                                               d \in {DefaultDegree, AlteredDegree}}

Next ==
  \/ \E t \in Tabs : SetActiveTab(t)
  \/ CreateDIDStart
  \/ \E run \in Running, ok \in Answers : CreateDIDFinish(run, ok)
  \/ ClearIdentity
  \/ IssueDemoStart
  \/ \E run \in Running, cid \in MockCIDs, salt \in 1..NumSalts : IssueDemoFinish(run, cid, salt)
  \/ IssueBackendStart
  \/ \E run \in Running, ok \in Answers, salt \in 1..NumSalts : IssueBackendOnIssued(run, ok, salt)
  \/ \E run \in Running, ok \in Answers : IssueBackendOnUploaded(run, ok)
  \/ ClearCredentials
  \/ \E text \in Texts : VerifyDebugStart(text)
  \/ \E run \in Running, ok \in Answers, text \in Texts : VerifyDebugOnRetrieved(run, ok, text)
  \/ VerifyBackendStart
  \/ \E run \in Running, ok \in Answers, text \in Texts : VerifyBackendOnRetrieved(run, ok, text)
  \/ \E run \in Running, ok \in {"success", "throw"} : VerifyBackendOnVerified(run, ok)
  \/ \E cid \in KnownCIDs : TypeCID(cid)
  \/ UseFirstCredential
  \/ ClearCID

Spec == Init /\ [][Next]_vars

\* ---------------------------------------------- the Issue side of the program
\* the behaviours in which the Verify tab is never opened (which VerifyTab the
\* build mounts makes no difference to them)
InitIssue == Init /\ verifyImpl = "debug"

NextIssue ==
  \/ \E t \in {"identity", "credential"} : SetActiveTab(t)
  \/ CreateDIDStart
  \/ \E run \in Running, ok \in Answers : CreateDIDFinish(run, ok)
  \/ ClearIdentity
  \/ IssueDemoStart
  \/ \E run \in Running, cid \in MockCIDs, salt \in 1..NumSalts : IssueDemoFinish(run, cid, salt)
  \/ IssueBackendStart
  \/ \E run \in Running, ok \in Answers, salt \in 1..NumSalts : IssueBackendOnIssued(run, ok, salt)
  \/ \E run \in Running, ok \in Answers : IssueBackendOnUploaded(run, ok)
  \/ ClearCredentials

SpecIssue == InitIssue /\ [][NextIssue]_vars

\* --------------------------------------------- the Verify side of the program
\* what an Issue run of identity `holder` leaves in localStorage and in the
\* content store (IssueDemoFinish, IssueBackendOnUploaded)
IssuedBy(holder) == [IdleRun EXCEPT !.kind = "issue", !.serial = 1,
                                    !.identity = <<Identity(holder)>>]
DemoRecord(holder, cid, salt) ==
  LET vc == MakeVC(IssuerDID, holder, DefaultDegree)
  IN CredentialRecord(IssuedBy(holder), vc, cid, AlwaysValidSignature,
                      <<Encrypt(vc, Identity(holder).privateKey, salt)>>, <<vc>>)
BackendEnvelope(holder, salt) ==
  Encrypt(IssuedVC(holder), Slice32(Identity(holder).privateKey), salt)
BackendRecord(holder, salt) ==
  CredentialRecord(IssuedBy(holder), IssuedVC(holder), CidOf(BackendEnvelope(holder, salt)),
                   IssuerSign(IssuedVC(holder)), <<>>, <<>>)

\* the stores as the Issue side leaves them: nothing issued yet, or one
\* credential issued to `holder`; the stored identity is the holder's, a
\* later one, or cleared
InitVerify ==
  /\ credImpl \in {"demo", "backend"}
  /\ verifyImpl \in {"debug", "backend"}
  /\ \E holder \in 1..MaxIdentities, current \in 0..MaxIdentities, issued \in BOOLEAN,
        cid \in MockCIDs, salt \in 1..NumSalts :
       /\ current = 0 \/ current >= holder
       /\ ~issued => (holder = 1 /\ cid = <<"Qm", 1>> /\ salt = 1)
       /\ credImpl = "backend" => cid = <<"Qm", 1>>
       /\ userIdentity = IF current = 0 THEN <<>> ELSE <<Identity(current)>>
       /\ nextIdentity = (IF current > holder THEN current ELSE holder) + 1
       /\ issueCount = IF issued THEN 1 ELSE 0
       /\ userCredentials = IF ~issued THEN <<>>
                            ELSE IF credImpl = "demo" THEN <<DemoRecord(holder, cid, salt)>>
                            ELSE <<BackendRecord(holder, salt)>>
       /\ contentStore = IF issued /\ credImpl = "backend"
                         THEN {[cid |-> CidOf(BackendEnvelope(holder, salt)),
                                data |-> BackendEnvelope(holder, salt)]}
                         ELSE {}
  /\ activeTab = "identity"
  /\ idTab = IdTabMount
  /\ credTab = CredTabInit
  /\ verTab = VerTabInit
  /\ runs = EmptyBag

NextVerify ==
  \/ \E t \in Tabs : SetActiveTab(t)
  \/ \E text \in Texts : VerifyDebugStart(text)
  \/ \E run \in Running, ok \in Answers, text \in Texts : VerifyDebugOnRetrieved(run, ok, text)
  \/ VerifyBackendStart
  \/ \E run \in Running, ok \in Answers, text \in Texts : VerifyBackendOnRetrieved(run, ok, text)
  \/ \E run \in Running, ok \in {"success", "throw"} : VerifyBackendOnVerified(run, ok)
  \/ \E cid \in KnownCIDs : TypeCID(cid)
  \/ UseFirstCredential
  \/ ClearCID

SpecVerify == InitVerify /\ [][NextVerify]_vars

\* ------------------------------------------------- tampering with the stores
\* someone with access to localStorage changes a stored record's signature
MutateSignature(i) ==
  /\ i \in 1..Len(userCredentials)
  /\ ~userCredentials[i].signature.flipped
  /\ userCredentials' = [userCredentials EXCEPT ![i].signature.flipped = TRUE]
  /\ UNCHANGED <<credImpl, verifyImpl, userIdentity, contentStore, nextIdentity,
                 issueCount, activeTab, idTab, credTab, verTab, runs>>

\* the envelope with its document altered, encrypted again under the same key
Altered(ct) == [ct EXCEPT !.doc.degree = AlteredDegree]

\* the encrypted document of a stored record is replaced, its signature kept
ReplaceDocument(i) ==
  /\ i \in 1..Len(userCredentials)
  /\ userCredentials[i].encryptedData /= <<>>
  /\ userCredentials[i].encryptedData[1].doc.degree = DefaultDegree
  /\ userCredentials' = [userCredentials EXCEPT
                           ![i].encryptedData = <<Altered(@[1])>>]
  /\ UNCHANGED <<credImpl, verifyImpl, userIdentity, contentStore, nextIdentity,
                 issueCount, activeTab, idTab, credTab, verTab, runs>>

\* the content store's bytes under a CID are replaced
ReplaceStoredDocument(b) ==
  /\ b \in contentStore
  /\ b.data.doc.degree = DefaultDegree
  /\ contentStore' = (contentStore \ {b}) \cup {[cid |-> b.cid, data |-> Altered(b.data)]}
  /\ UNCHANGED <<credImpl, verifyImpl, userIdentity, userCredentials, nextIdentity,
                 issueCount, activeTab, idTab, credTab, verTab, runs>>

\* the Verify side with a tamperer at the stores
NextAdversary ==
  \/ NextVerify
  \/ \E i \in 1..MaxIssues : MutateSignature(i)
  \/ \E i \in 1..MaxIssues : ReplaceDocument(i)
  \/ \E b \in contentStore : ReplaceStoredDocument(b)

SpecAdversary == InitVerify /\ [][NextAdversary]_vars

\* ================================================================ properties
\* the Verify tab shows a result with verified = true
ShowsVerified ==
  verTab.verificationResult /= <<>> /\ verTab.verificationResult[1].verified

\* the stored record of a CID carries a mutated signature
SignatureMutated(cid) ==
  \E i \in 1..Len(userCredentials) :
    userCredentials[i].cid = cid /\ userCredentials[i].signature.flipped

\* C1: no step of a Verify run shows verified = true for a credential whose
\* stored signature was mutated before the step read it.
C1_MutatedSignatureNeverVerified ==
  [][ /\ \A text \in Texts :
           (VerifyDebugStart(text) /\ ShowsVerified') => ~SignatureMutated(verTab.cid[1])
      /\ \A run \in Running, ok \in Answers, text \in Texts :
           (VerifyDebugOnRetrieved(run, ok, text) /\ run.mounted /\ ShowsVerified')
             => ~SignatureMutated(run.cid[1])
      /\ \A run \in Running :
           (VerifyBackendOnVerified(run, "success") /\ run.mounted /\ ShowsVerified')
             => ~run.signature.flipped ]_vars

\* the document that decrypts from the stored envelope of a CID is not the one
\* the record was issued for
DocumentReplaced(cid) ==
  \/ \E i \in 1..Len(userCredentials) :
       /\ userCredentials[i].cid = cid
       /\ userCredentials[i].encryptedData /= <<>>
       /\ userCredentials[i].vcData /= <<>>
       /\ userCredentials[i].encryptedData[1].doc /= userCredentials[i].vcData[1]
  \/ \E i \in 1..Len(userCredentials) :
       /\ userCredentials[i].cid = cid
       /\ userCredentials[i].encryptedData = <<>>
       /\ StoreHas(cid)
       /\ userCredentials[i].signature /= IssuerSign(StoreGet(cid).doc)

\* C2: no step of a Verify run shows verified = true for a CID whose encrypted
\* document was replaced while the stored signature was kept.
C2_ReplacedDocumentNeverVerified ==
  [][ /\ \A text \in Texts :
           (VerifyDebugStart(text) /\ ShowsVerified') => ~DocumentReplaced(verTab.cid[1])
      /\ \A run \in Running, ok \in Answers, text \in Texts :
           (VerifyDebugOnRetrieved(run, ok, text) /\ run.mounted /\ ShowsVerified')
             => ~DocumentReplaced(run.cid[1])
      /\ \A run \in Running :
           (VerifyBackendOnVerified(run, "success") /\ run.mounted /\ ShowsVerified')
             => run.signature = IssuerSign(run.vc[1]) ]_vars

\* the key a Verify run of the stored identity decrypts with
VerifyKey ==
  IF verifyImpl = "debug" THEN userIdentity[1].privateKey
  ELSE Slice32(userIdentity[1].privateKey)

\* the stored record of the CID in the input has an envelope encrypted under
\* another key than the stored identity's
LocalKeyDiffers ==
  /\ userIdentity /= <<>>
  /\ verTab.cid /= <<>>
  /\ LET rec == Find(userCredentials, verTab.cid[1])
     IN /\ rec /= <<>>
        /\ rec[1].encryptedData /= <<>>
        /\ rec[1].encryptedData[1].key /= VerifyKey

\* C3: a Verify run whose identity's key is not the key the credential was
\* encrypted with shows no result with verified = true and no decrypted
\* document, also when the local record carries the document in the clear.
C3_WrongKeyShowsNothing ==
  [][ /\ \A text \in Texts :
           (VerifyDebugStart(text) /\ LocalKeyDiffers)
             => (~ShowsVerified' /\ verTab'.decryptedVC = <<>>)
      /\ \A run \in Running, ok \in Answers, text \in Texts :
           ( /\ VerifyDebugOnRetrieved(run, ok, text) \/ VerifyBackendOnRetrieved(run, ok, text)
             /\ run.mounted
             /\ ok = "success"
             /\ StoreGet(run.cid[1]).key /=
                  (IF verifyImpl = "debug" THEN run.identity[1].privateKey
                   ELSE Slice32(run.identity[1].privateKey)) )
             => (~ShowsVerified' /\ verTab'.decryptedVC = <<>>) ]_vars

\* a step in which an Issue run fails: no identity at its start, or the
\* issuer's or the content store's request fails or answers success = false
IssueStepFails ==
  \/ (IssueDemoStart \/ IssueBackendStart) /\ userIdentity = <<>>
  \/ \E run \in Running, ok \in {"fail", "throw"}, salt \in 1..NumSalts :
       IssueBackendOnIssued(run, ok, salt)
  \/ \E run \in Running, ok \in {"fail", "throw"} : IssueBackendOnUploaded(run, ok)

\* C4: a failing step of an Issue run ends the run, leaves 'userCredentials'
\* as it was and writes no success message; the list is written only by the
\* last step of a run whose every request succeeded, or by an explicit clear.
C4_FailedIssueWritesNothing ==
  [][ /\ IssueStepFails =>
           /\ userCredentials' = userCredentials
           /\ contentStore' = contentStore
           /\ credTab'.credentials = credTab.credentials
           /\ credTab'.message = "IssueSuccess" => credTab' = credTab
           /\ \A run \in BagToSet(runs') : run.kind = "issue" => BagIn(run, runs)
           /\ BagCardinality(runs') <= BagCardinality(runs)
      /\ userCredentials' /= userCredentials =>
           \/ ClearCredentials
           \/ \E run \in Running, cid \in MockCIDs, salt \in 1..NumSalts :
                IssueDemoFinish(run, cid, salt)
           \/ \E run \in Running : IssueBackendOnUploaded(run, "success") ]_vars

\* an Issue run failed after an earlier one had stored its record
C4_Witness ==
  /\ credTab.message \in {"ErrorIssuingVC", "ErrorUploading", "Error"}
  /\ Len(userCredentials) = 1
  /\ ~credTab.loading

\* the Issue and Verify runs in progress
InProgress == {run \in Running : run.kind \in {"issue", "verify"}}

\* C5: at most one Issue or Verify run is in progress.
C5_AtMostOneRun ==
  /\ Cardinality(InProgress) <= 1
  /\ \A run \in InProgress : CopiesIn(run, runs) = 1

\* the records of a list, and the list after a step
Records(creds) == {creds[i] : i \in 1..Len(creds)}

\* C6: a stored record leaves 'userCredentials' only by an explicit clear, and
\* a step that writes the list adds at most the one record of the run that
\* writes it (so that no cleared record comes back).
C6_ListNeverCorrupted ==
  [][ /\ ~ClearCredentials => Records(userCredentials) \subseteq Records(userCredentials')
      /\ \A rec \in Records(userCredentials') \ Records(userCredentials) :
           \E run \in Running : run.kind = "issue" /\ rec.id = run.serial /\ ~BagIn(run, runs') ]_vars

\* the local list holds a record of the CID with encrypted data
LocallyUsable(cid) ==
  \E rec \in Records(userCredentials) : rec.cid = cid /\ rec.encryptedData /= <<>>

\* a retrieve request for the CID is sent in this step
SendsRetrieve(cid) ==
  \E run \in BagToSet(runs') :
    /\ run.kind = "verify" /\ run.pc = "awaitRetrieve" /\ run.cid = <<cid>>
    /\ CopiesIn(run, runs') > CopiesIn(run, runs)

\* C7: Verify sends no retrieve request for a CID of which the local list
\* holds a record with encrypted data.
C7_LocalRecordFirst ==
  [][ \A cid \in KnownCIDs : LocallyUsable(cid) => ~SendsRetrieve(cid) ]_vars

\* the CID is in neither the local list nor the content store
Unknown(cid) == Find(userCredentials, cid) = <<>> /\ ~StoreHas(cid)

NotFoundMessages == {"CredentialNotFound", "CidNotFound", "ErrorRetrieving", "CouldNotRetrieve"}

\* the tab shows nothing of the decryption or of a later step
NothingDecrypted(tab) ==
  /\ tab.verificationResult = <<>>
  /\ tab.decryptedVC = <<>>
  /\ \A i \in 1..Len(tab.stepLog) : tab.stepLog[i] < 3
  /\ \A i \in 1..Len(tab.debugInfo) : tab.debugInfo[i] \notin {"DECRYPT_START", "DECRYPT_FAILED",
                                                              "PARSE_ERROR"}

InOrder(log) == \A i \in 1..Len(log) - 1 : log[i + 1] \in {log[i], log[i] + 1}

\* C9: the steps of a Verify run are taken in order, a result is shown only
\* after the signature-check step, and after a failed decryption no decrypted
\* document and no result are written and no later step is taken.
C9_StepsInOrder ==
  /\ InOrder(verTab.stepLog)
  /\ (verifyImpl = "debug" /\ verTab.verificationResult /= <<>>) =>
        \E i \in 1..Len(verTab.stepLog) : verTab.stepLog[i] = 4
  /\ (\E i \in 1..Len(verTab.debugInfo) : verTab.debugInfo[i] = "DECRYPT_FAILED") =>
        /\ verTab.verificationResult = <<>>
        /\ verTab.decryptedVC = <<>>
        /\ \A i \in 1..Len(verTab.stepLog) : verTab.stepLog[i] <= 3

\* C10: a step that writes a record to 'userCredentials' finds an identity
\* stored under 'userIdentity' whose DID is the record's did.
C10_WriterIdentityStored ==
  [][ \A rec \in Records(userCredentials') \ Records(userCredentials) :
        userIdentity /= <<>> /\ userIdentity[1].did = rec.did ]_vars

\* ------------------------------------------------------- requests in flight
\* the JSON body of a request: its fields, an absent one <<>>; keyMaterial is
\* what the body holds of a private key (the key or a slice of it)
NoBody == [holderDID |-> <<>>, holderPublicKey |-> <<>>, degree |-> <<>>,
           encryptedVC |-> <<>>, metadata |-> <<>>, cid |-> <<>>,
           credentialPayload |-> <<>>, signature |-> <<>>, keyMaterial |-> {}]

\* axios.post("http://localhost:5000/api/create-did")
CreateDIDRequest == [url |-> "create-did", body |-> NoBody]

\* axios.post(`${API_URL}/issue-vc`, {holderDID, holderPublicKey, degree})
IssueVCRequest(identity) ==
  [url |-> "issue-vc",
   body |-> [NoBody EXCEPT !.holderDID = <<identity.did>>,
                           !.holderPublicKey = <<identity.publicKey>>,
                           !.degree = <<DefaultDegree>>]]

\* a mutation of UploadRequest: the key is sent along with the envelope
UploadRequest_WithKey(identity, vc, encryptedVC) ==
  [url |-> "upload-to-ipfs",
   body |-> [NoBody EXCEPT !.encryptedVC = <<encryptedVC>>,
                           !.metadata = <<[holderDID |-> identity.did,
                                           issuerDID |-> vc.issuer]>>,
                           !.keyMaterial = {Slice32(identity.privateKey)}]]

\* axios.post(`${API_URL}/upload-to-ipfs`, {encryptedVC, metadata: {holderDID,
\* issuerDID, issuanceDate, credentialType}})
UploadRequest(identity, vc, encryptedVC) ==
  [url |-> "upload-to-ipfs",
   body |-> [NoBody EXCEPT !.encryptedVC = <<encryptedVC>>,
                           !.metadata = <<[holderDID |-> identity.did,
                                           issuerDID |-> vc.issuer]>>]]

\* axios.post(`${API_URL}/retrieve-from-ipfs`, {cid})
RetrieveRequest(cid) == [url |-> "retrieve-from-ipfs", body |-> [NoBody EXCEPT !.cid = <<cid>>]]

\* axios.post(`${API_URL}/verify-vc`, {credentialPayload, signature})
VerifyVCRequest(vc, signature) ==
  [url |-> "verify-vc",
   body |-> [NoBody EXCEPT !.credentialPayload = <<vc>>, !.signature = <<signature>>]]

\* the request a run is suspended on (the timers of the local Issue send none)
PendingRequest(run) ==
  CASE run.pc = "awaitCreate" -> <<CreateDIDRequest>>
    [] run.pc = "awaitIssue" -> <<IssueVCRequest(run.identity[1])>>
    [] run.pc = "awaitUpload" ->
         <<UploadRequest(run.identity[1], run.vc[1], run.encryptedVC[1])>>
    [] run.pc = "awaitRetrieve" -> <<RetrieveRequest(run.cid[1])>>
    [] run.pc = "awaitVerify" -> <<VerifyVCRequest(run.vc[1], run.signature)>>
    [] OTHER -> <<>>

\* the requests in flight
InFlight == UNION {{PendingRequest(run)[i] : i \in 1..Len(PendingRequest(run))} : run \in Running}

\* the build whose tabs send requests to the issuer and to the content store
\* (the backend CredentialTab and the backend VerifyTab), over stores an Issue
\* run has written
InitWire == InitVerify /\ credImpl = "backend" /\ verifyImpl = "backend"

NextWire ==
  \/ \E t \in Tabs : SetActiveTab(t)
  \/ IssueBackendStart
  \/ \E run \in Running, ok \in Answers, salt \in 1..NumSalts : IssueBackendOnIssued(run, ok, salt)
  \/ \E run \in Running, ok \in Answers : IssueBackendOnUploaded(run, ok)
  \/ VerifyBackendStart
  \/ \E run \in Running, ok \in Answers, text \in Texts : VerifyBackendOnRetrieved(run, ok, text)
  \/ \E run \in Running, ok \in {"success", "throw"} : VerifyBackendOnVerified(run, ok)
  \/ \E cid \in KnownCIDs : TypeCID(cid)

SpecWire == InitWire /\ [][NextWire]_vars

\* the private keys of the identities, and the encryption keys cut from them
KeyMaterial ==
  {Identity(i).privateKey : i \in 1..MaxIdentities}
    \cup {Slice32(Identity(i).privateKey) : i \in 1..MaxIdentities}

ToIssuerOrStore == {"issue-vc", "upload-to-ipfs", "retrieve-from-ipfs", "verify-vc"}

C12_UploadIsCiphertextOnly ==
  \A req \in InFlight :
    req.url = "upload-to-ipfs" => req.body.metadata = <<>>

\* ------------------------------------------------------------------ progress
\* What the scheduler guarantees: a timer that was set fires (the setTimeout
\* delays of the demo Issue run).  Nothing guarantees that the network answers
\* a request, and no handler sets a timer next to a request or aborts one.
TimersFire ==
  \E run \in Running, cid \in MockCIDs, salt \in 1..NumSalts : IssueDemoFinish(run, cid, salt)

SpecLive == Spec /\ WF_vars(TimersFire)

NetworkPending == \E req \in InFlight : req.url \in ToIssuerOrStore

\* C13: every Issue or Verify run suspended on a network call to the issuer
\* or the content store eventually ends, also when the call never answers
\* (it then fails with a timeout and writes no record).
C13_SuspendedRunsEnd == NetworkPending ~> ~NetworkPending

\* ------------------------------------------------- Issue and Verify together
\* a step in which an Issue run stores its record
IssueSucceeds ==
  \/ \E run \in Running, cid \in MockCIDs, salt \in 1..NumSalts : IssueDemoFinish(run, cid, salt)
  \/ \E run \in Running : IssueBackendOnUploaded(run, "success")

\* the list holds a record of the CID that was issued to the identity
IssuedTo(identity, cid) ==
  \E rec \in Records(userCredentials) : rec.cid = cid /\ rec.did = identity.did

\* the Verify tab shows the document as verified
ShowsDocument(tab, vc) ==
  /\ tab.verificationResult /= <<>>
  /\ tab.verificationResult[1].verified
  /\ tab.decryptedVC = <<vc>>

\* C14: each of two successful Issue runs with the same inputs leaves its own
\* record, the CIDs of the records differ, and a Verify run for the CID of a
\* stored record, run by the identity it was issued to and answered by the
\* network, ends showing that record's document as verified.
C14_TwoIssuesTwoVerifiableRecords ==
  [][ /\ IssueSucceeds =>
           /\ Len(userCredentials') = Len(userCredentials) + 1
           /\ \A i, j \in 1..Len(userCredentials') :
                 i /= j => userCredentials'[i].cid /= userCredentials'[j].cid
      /\ \A text \in Texts :
           ( /\ VerifyDebugStart(text)
             /\ userIdentity /= <<>>
             /\ IssuedTo(userIdentity[1], verTab.cid[1])
             /\ runs' = runs )
             => ShowsDocument(verTab', IssuedVC(userIdentity[1].did))
      /\ \A run \in Running, ok \in {"success", "fail"}, text \in Texts :
           ( /\ VerifyDebugOnRetrieved(run, ok, text) \/ VerifyBackendOnRetrieved(run, ok, text)
             /\ run.mounted
             /\ IssuedTo(run.identity[1], run.cid[1])
             /\ runs' = Ended(run) )
             => ShowsDocument(verTab', IssuedVC(run.identity[1].did))
      /\ \A run \in Running :
           ( /\ VerifyBackendOnVerified(run, "success")
             /\ run.mounted
             /\ IssuedTo(run.identity[1], run.cid[1]) )
             => ShowsDocument(verTab', IssuedVC(run.identity[1].did)) ]_vars

\* the encrypted payloads kept under a CID: in the records of the list and in
\* the content store
Payloads(cid) ==
  {rec.encryptedData[1] : rec \in {r \in Records(userCredentials) :
                                     r.cid = cid /\ r.encryptedData /= <<>>}}
    \cup {b.data : b \in {c \in contentStore : c.cid = cid}}

\* C15: the CID of a record is a function of the bytes of its encrypted
\* envelope (content addressing): records with identical encrypted data have
\* the same CID, a CID stands for at most one encrypted payload, and the CID
\* is the address the envelope's bytes give.
C15_CidIsFunctionOfEnvelope ==
  /\ \A r1, r2 \in Records(userCredentials) :
        (r1.encryptedData /= <<>> /\ r1.encryptedData = r2.encryptedData) => r1.cid = r2.cid
  /\ \A rec \in Records(userCredentials) :
        /\ Cardinality(Payloads(rec.cid)) <= 1
        /\ \A ct \in Payloads(rec.cid) : rec.cid = CidOf(ct)

\* the record that Verify finds for the CID was issued to the identity
FirstIssuedTo(identity, cid) ==
  LET rec == Find(userCredentials, cid)
  IN rec /= <<>> /\ rec[1].did = identity.did /\ rec[1].issuer = IssuerDID

\* the Verify tab shows a result with verified = true for issuer and subject
ShowsResult(tab, issuer, subject) ==
  /\ tab.verificationResult /= <<>>
  /\ tab.verificationResult[1].verified
  /\ tab.verificationResult[1].issuer = issuer
  /\ tab.verificationResult[1].subject = subject

\* C16: after a successful Issue for the stored identity, a Verify run of the
\* issued CID by the same identity, answered by the network, ends with a
\* result that has verified = true, the holder's DID as subject and the
\* issuer DID of the issued document as issuer.
C16_IssueThenVerify ==
  [][ /\ \A text \in Texts :
           ( /\ VerifyDebugStart(text)
             /\ userIdentity /= <<>>
             /\ FirstIssuedTo(userIdentity[1], verTab.cid[1])
             /\ runs' = runs )
             => ShowsResult(verTab', IssuerDID, userIdentity[1].did)
      /\ \A run \in Running, ok \in {"success", "fail"}, text \in Texts :
           ( /\ VerifyDebugOnRetrieved(run, ok, text) \/ VerifyBackendOnRetrieved(run, ok, text)
             /\ run.mounted
             /\ userIdentity = run.identity
             /\ FirstIssuedTo(run.identity[1], run.cid[1])
             /\ runs' = Ended(run) )
             => ShowsResult(verTab', IssuerDID, run.identity[1].did)
      /\ \A run \in Running :
           ( /\ VerifyBackendOnVerified(run, "success")
             /\ run.mounted
             /\ userIdentity = run.identity
             /\ FirstIssuedTo(run.identity[1], run.cid[1]) )
             => ShowsResult(verTab', IssuerDID, run.identity[1].did) ]_vars

\* --------------------------------------------------------------- decryption
\* the key a Verify run decrypts with: the private key in the debug tab, its
\* first 32 characters in the backend tab
DecryptionKey(identity) ==
  IF verifyImpl = "debug" THEN identity.privateKey ELSE Slice32(identity.privateKey)

\* what the round-trip law allows decryption to return: the encrypted text
\* under the key of the encryption, no text under any other key
RoundTrip(ct, key) == IF ct.key = key THEN JsonText(ct.doc) ELSE EmptyText

\* C17: whenever a Verify run decrypts an envelope, the text it gets is the
\* encrypted text if its key is the key of the encryption, and no text (a
\* reported failure) if its key is another one; never a different text.
C17_DecryptInvertsEncrypt ==
  [][ /\ \A text \in Texts :
           ( /\ VerifyDebugStart(text)
             /\ userIdentity /= <<>>
             /\ LocallyUsable(verTab.cid[1]) )
             => text = RoundTrip(Find(userCredentials, verTab.cid[1])[1].encryptedData[1],
                                 DecryptionKey(userIdentity[1]))
      /\ \A run \in Running, text \in Texts :
           ( VerifyDebugOnRetrieved(run, "success", text)
             \/ VerifyBackendOnRetrieved(run, "success", text) )
             => text = RoundTrip(StoreGet(run.cid[1]), DecryptionKey(run.identity[1])) ]_vars

\* ------------------------------------------------------ malformed documents
\* a decrypted text that JSON.parse accepts and that has no issuer and no
\* credentialSubject.id (vc.issuer and vc.credentialSubject?.id undefined)
IncompleteText == JsonText(NullDoc)

\* the envelope of such a text under the same key
Incomplete(ct) == [ct EXCEPT !.doc = NullDoc]

\* the encrypted data of a stored record is an envelope of such a text
PlantIncomplete(i) ==
  /\ i \in 1..Len(userCredentials)
  /\ userCredentials[i].encryptedData /= <<>>
  /\ userCredentials[i].encryptedData[1].doc /= NullDoc
  /\ userCredentials' = [userCredentials EXCEPT ![i].encryptedData = <<Incomplete(@[1])>>]
  /\ UNCHANGED <<credImpl, verifyImpl, userIdentity, contentStore, nextIdentity,
                 issueCount, activeTab, idTab, credTab, verTab, runs>>

\* the content store's bytes under a CID are an envelope of such a text
PlantIncompleteStored(b) ==
  /\ b \in contentStore
  /\ b.data.doc /= NullDoc
  /\ contentStore' = (contentStore \ {b}) \cup {[cid |-> b.cid, data |-> Incomplete(b.data)]}
  /\ UNCHANGED <<credImpl, verifyImpl, userIdentity, userCredentials, nextIdentity,
                 issueCount, activeTab, idTab, credTab, verTab, runs>>

DecryptedTexts == Texts \cup {IncompleteText}

\* the Verify side reading envelopes of well-formed and of malformed documents
NextMalformed ==
  \/ \E t \in Tabs : SetActiveTab(t)
  \/ \E text \in DecryptedTexts : VerifyDebugStart(text)
  \/ \E run \in Running, ok \in Answers, text \in DecryptedTexts :
       VerifyDebugOnRetrieved(run, ok, text)
  \/ VerifyBackendStart
  \/ \E run \in Running, ok \in Answers, text \in DecryptedTexts :
       VerifyBackendOnRetrieved(run, ok, text)
  \/ \E run \in Running, ok \in {"success", "throw"} : VerifyBackendOnVerified(run, ok)
  \/ \E cid \in KnownCIDs : TypeCID(cid)
  \/ UseFirstCredential
  \/ ClearCID
  \/ \E i \in 1..MaxIssues : PlantIncomplete(i)
  \/ \E b \in contentStore : PlantIncompleteStored(b)

SpecMalformed == InitVerify /\ [][NextMalformed]_vars

\* the decrypted text is not a well-formed credential document: it does not
\* parse, or it parses and lacks the issuer or the subject id
Malformed(text) ==
  \/ text.kind = "garbage"
  \/ text.kind = "json" /\ (text.doc.issuer = NullDoc.issuer \/ text.doc.subject = NullDoc.subject)

MalformedOutcomes == {"ParseFailed", "ErrorDecrypting"}

\* the tab shows the failed end of a run, with no document and no result
ShowsMalformed(tab) ==
  /\ tab.message \in MalformedOutcomes
  /\ ~tab.loading
  /\ tab.verificationResult = <<>>
  /\ tab.decryptedVC = <<>>

\* C18: a Verify step that decrypts a text which is not a well-formed
\* credential document (unparseable, or parseable and lacking the issuer or
\* the subject id) ends the run with a malformed-document outcome: no
\* decrypted document, no result, and never verified = true.
C18_MalformedDocumentFails ==
  [][ /\ \A text \in DecryptedTexts :
           ( /\ VerifyDebugStart(text)
             /\ Malformed(text) )
             => ShowsMalformed(verTab')
      /\ \A run \in Running, text \in DecryptedTexts :
           ( /\ VerifyDebugOnRetrieved(run, "success", text)
                \/ VerifyBackendOnRetrieved(run, "success", text)
             /\ run.mounted
             /\ Malformed(text) )
             => (ShowsMalformed(verTab') /\ runs' = Ended(run)) ]_vars

\* ----------------------------------------------------------------- identity
\* C19: a stored identity is immutable: no step replaces the identity under
\* 'userIdentity' by a different one while it exists (did, publicKey,
\* privateKey and address never change; it can only be cleared).
C19_StoredIdentityImmutable ==
  [][ (userIdentity /= <<>> /\ userIdentity' /= <<>>) => userIdentity' = userIdentity ]_vars

\* ------------------------------------------------------------------ retries
\* a step in which a request of the run to the issuer or the content store
\* fails in transit (axios.post rejects)
TransientFailure(run) ==
  \/ \E salt \in 1..NumSalts : IssueBackendOnIssued(run, "throw", salt)
  \/ IssueBackendOnUploaded(run, "throw")
  \/ VerifyDebugOnRetrieved(run, "throw", EmptyText)
  \/ VerifyBackendOnRetrieved(run, "throw", EmptyText)
  \/ VerifyBackendOnVerified(run, "throw")

\* C20: a transient failure of a network call is retried: the step that takes
\* the failure of a request sent once leaves the run in progress with the
\* same request sent again; the run does not fail on its first attempt.
C20_TransientFailureRetried ==
  [][ \A run \in Running :
        TransientFailure(run) =>
          /\ BagCardinality(runs') = BagCardinality(runs)
          /\ PendingRequest(run)[1] \in InFlight' ]_vars

\* ------------------------------------------------------------ key derivation
\* the encrypted envelope of a record: its encryptedData, or what the content
\* store keeps under its CID when the record carries none
EnvelopesOf(rec) ==
  IF rec.encryptedData /= <<>> THEN {rec.encryptedData[1]}
  ELSE {b.data : b \in {c \in contentStore : c.cid = rec.cid}}

\* C21: the key Verify decrypts with is the same function of the private key
\* as the key Issue encrypted with, whichever CredentialTab and VerifyTab the
\* build pairs: every envelope of a record issued to the stored identity is
\* encrypted under the key a Verify run of that identity decrypts with.
C21_OneKeyDerivation ==
  \A rec \in Records(userCredentials) :
    (userIdentity /= <<>> /\ rec.did = userIdentity[1].did)
      => \A ct \in EnvelopesOf(rec) : ct.key = DecryptionKey(userIdentity[1])

\* ------------------------------------------------- the backend's verdict
\* the verified flag the issuer backend answers a verify-vc request with
VerifyVCAnswer(req) ==
  SignatureEngineVerify(req.body.credentialPayload[1], req.body.signature[1])

\* the runs that this step suspends on a verify-vc request
NewlyAwaitingVerify ==
  {r \in BagToSet(runs') : r.pc = "awaitVerify" /\ CopiesIn(r, runs') > CopiesIn(r, runs)}

\* the step resumes the run: it leaves the point it was suspended at (a tab
\* switch also changes the run, to unmounted)
Resumes(run) == CopiesIn(run, runs') < CopiesIn(run, runs)

MountedRun(kind) == \E run \in Running : run.kind = kind /\ run.mounted

\* C23: the loading flag of a tab is true only while a run of that tab is in
\* progress: every path on which an Issue or Verify handler finishes leaves
\* loading false.
C23_LoadingOnlyWhileRunning ==
  /\ credTab.loading => MountedRun("issue")
  /\ verTab.loading => MountedRun("verify")

\* ------------------------------------------------------- the local store
\* C24: whenever 'userCredentials' holds a record, 'userIdentity' holds an
\* identity and every stored record's did is that identity's DID.
C24_CredentialsOfStoredIdentity ==
  userCredentials /= <<>> =>
    /\ userIdentity /= <<>>
    /\ \A rec \in Records(userCredentials) : rec.did = userIdentity[1].did

\* C25: whenever the mounted CredentialTab has no Issue run of its own in
\* progress, its in-memory list is the list stored under 'userCredentials',
\* also after a run of an earlier, unmounted instance has completed.
C25_MemoryEqualsStore ==
  (activeTab = "credential" /\ ~MountedRun("issue")) => credTab.credentials = userCredentials

\* a step of a Verify run: a handleVerify from its start to its first await
\* or its end, or one of its continuations
VerifyStep ==
  \/ \E text \in Texts : VerifyDebugStart(text)
  \/ \E run \in Running, ok \in Answers, text \in Texts : VerifyDebugOnRetrieved(run, ok, text)
  \/ VerifyBackendStart
  \/ \E run \in Running, ok \in Answers, text \in Texts : VerifyBackendOnRetrieved(run, ok, text)
  \/ \E run \in Running, ok \in {"success", "throw"} : VerifyBackendOnVerified(run, ok)

\* C26: no step of a Verify run changes the local store: 'userIdentity' and
\* 'userCredentials' are after the step what they were before it, on every
\* path of the run.
C26_VerifyLeavesStore ==
  [][ VerifyStep => (userIdentity' = userIdentity /\ userCredentials' = userCredentials) ]_vars

\* a Verify run of the debug tab failed to retrieve a credential that the
\* list holds a record of, and the record is still there
C26_Witness ==
  /\ verifyImpl = "debug"
  /\ verTab.message = "CredentialNotFound"
  /\ verTab.cid /= <<>>
  /\ Find(userCredentials, verTab.cid[1]) /= <<>>
  /\ userIdentity /= <<>>
  /\ runs = EmptyBag

\* ------------------------------------------------------ no identity stored
\* the behaviours in which no identity is ever stored: none at the start, and
\* every create-did request fails
InitNoIdentity == InitVerify /\ userIdentity = <<>>

NextNoIdentity ==
  \/ \E t \in Tabs : SetActiveTab(t)
  \/ CreateDIDStart
  \/ \E run \in Running, ok \in {"fail", "throw"} : CreateDIDFinish(run, ok)
  \/ IssueDemoStart
  \/ IssueBackendStart
  \/ ClearCredentials
  \/ \E text \in Texts : VerifyDebugStart(text)
  \/ VerifyBackendStart
  \/ \E cid \in KnownCIDs : TypeCID(cid)
  \/ UseFirstCredential
  \/ ClearCID

SpecNoIdentity == InitNoIdentity /\ [][NextNoIdentity]_vars

C28_ResultForCurrentCid ==
  [][ activeTab' = activeTab =>
        /\ verTab'.cid /= verTab.cid => verTab'.verificationResult = <<>>
        /\ \A run \in Running :
             ( /\ run.kind = "verify" /\ run.mounted /\ Resumes(run)
               /\ verTab'.verificationResult /= <<>> )
               => verTab'.cid = run.cid ]_vars

\* ------------------------------------------------------- creating identities
\* the behaviours of the Identity tab: creating and clearing identities, the
\* tab left and opened again
NextIdentity ==
  \/ \E t \in Tabs : SetActiveTab(t)
  \/ CreateDIDStart
  \/ \E run \in Running, ok \in Answers : CreateDIDFinish(run, ok)
  \/ ClearIdentity

SpecIdentity == Init /\ [][NextIdentity]_vars

\* C29: the step that takes a failed create-did answer (a thrown request or
\* an answer without success; the tab then shows no 'DID created' message)
\* leaves 'userIdentity' and the identity in memory as they were;
\* 'userIdentity' is written only by the step that takes a successful answer,
\* and what it writes is then the identity the Identity tab shows.
C29_FailedCreateKeepsIdentity ==
  [][ /\ \A run \in Running :
           ( /\ run.pc = "awaitCreate" /\ Resumes(run) /\ activeTab' = activeTab
             /\ \/ run.mounted /\ idTab'.message /= "DIDCreated"
                \/ nextIdentity' = nextIdentity )
             => (userIdentity' = userIdentity /\ idTab'.identity = idTab.identity)
      /\ (userIdentity' /= userIdentity /\ userIdentity' /= <<>>) =>
           /\ userIdentity' = <<Identity(nextIdentity)>>
           /\ \E run \in Running : run.pc = "awaitCreate" /\ Resumes(run)
           /\ activeTab = "identity" => idTab'.identity = userIdentity' ]_vars

====
